---- MODULE Spec2Model ----
(***************************************************************************)
(* Model of the product_scraper crawl pipeline:                            *)
(*   - SitemapSpider   (spiders/sitemap_spider.py): the URL Collector      *)
(*   - ProductSpider   (spiders/product_spider.py): the Product Extractor  *)
(*   - ProductLoader   (loaders.py): input/output processors of the items  *)
(*   - ProductScraperPipeline (pipelines.py): the Dedup/Reporting stage    *)
(*                                                                         *)
(* Strings are sequences of one-character strings, so that str.strip, the  *)
(* " | " join, the "-p-" substring test, urljoin and sorted() are computed *)
(* and not assumed.  Python's None is the one-element sequence <<"None">>. *)
(***************************************************************************)
EXTENDS Integers, Sequences, FiniteSets, TLC

\* ------------------------------------------------------------------------
\* Bounds of the model
\* ------------------------------------------------------------------------
\* entries of one sitemap document
MaxLocs == 2
\* variant links found on one product page
MaxHrefs == 2
\* URLs in product_links.json read by the extractor
MaxPages == 2
\* feature groups of a variant region
MaxFeatures == 2
\* options of one feature group
MaxOptions == 2
\* entries of a breadcrumb trail
MaxTrail == 5

\* settings.py: CONCURRENT_REQUESTS
CONCURRENT_REQUESTS == 8

\* ------------------------------------------------------------------------
\* Strings
\* ------------------------------------------------------------------------
None == <<"None">>

Range(s) == {s[i] : i \in 1..Len(s)}

SeqsUpTo(S, n) == UNION {[1..k -> S] : k \in 0..n}

RECURSIVE Concat(_)
\* ''.join(parts)
Concat(parts) ==
    IF parts = <<>> THEN <<>> ELSE Head(parts) \o Concat(Tail(parts))

RECURSIVE lstrip(_)
lstrip(s) ==
    IF s # <<>> /\ Head(s) = " " THEN lstrip(Tail(s)) ELSE s

RECURSIVE rstrip(_)
rstrip(s) ==
    IF s # <<>> /\ s[Len(s)] = " " THEN rstrip(SubSeq(s, 1, Len(s) - 1)) ELSE s

\* str.strip
strip(s) == rstrip(lstrip(s))

\* needle in hay (Python's substring test)
Contains(hay, needle) ==
    \E i \in 1..(Len(hay) - Len(needle) + 1) :
        SubSeq(hay, i, i + Len(needle) - 1) = needle

\* code points of the characters URLs are made of; an origin ("https://x")
\* is one token, ordered as its host letter orders it
Code(c) ==
    CASE c = "https://x" -> 1
      [] c = "https://y" -> 2
      [] c = "-" -> 45
      [] c = "/" -> 47
      [] c = "1" -> 49
      [] c = "2" -> 50
      [] c = "a" -> 97
      [] c = "b" -> 98
      [] c = "p" -> 112
      [] c = "v" -> 118
      [] OTHER -> 0

RECURSIVE StrLess(_, _)
\* a < b for Python strings (lexicographic by code point)
StrLess(a, b) ==
    IF a = <<>> THEN b # <<>>
    ELSE IF b = <<>> THEN FALSE
    ELSE IF Code(Head(a)) # Code(Head(b)) THEN Code(Head(a)) < Code(Head(b))
    ELSE StrLess(Tail(a), Tail(b))

RECURSIVE sorted(_)
\* sorted(set_of_strings)
sorted(S) ==
    IF S = {} THEN <<>>
    ELSE LET m == CHOOSE x \in S : \A y \in S \ {x} : StrLess(x, y)
         IN  <<m>> \o sorted(S \ {m})

\* ------------------------------------------------------------------------
\* URLs
\* ------------------------------------------------------------------------
Origins == {"https://x", "https://y"}

IsAbsolute(u) == u # <<>> /\ Head(u) \in Origins

RECURSIVE BaseDir(_)
\* the base URL up to and including the last "/" of its path
BaseDir(base) ==
    IF Len(base) <= 1 THEN base \o <<"/">>
    ELSE IF base[Len(base)] = "/" THEN base
    ELSE BaseDir(SubSeq(base, 1, Len(base) - 1))

\* response.urljoin(href)
urljoin(base, href) ==
    IF href = <<>> THEN base
    ELSE IF Head(href) \in Origins THEN href
    ELSE IF Head(href) = "/" THEN <<Head(base)>> \o href
    ELSE BaseDir(base) \o href

\* ------------------------------------------------------------------------
\* JSON text, as a sequence of tokens
\* ------------------------------------------------------------------------
Tok(t) == [t |-> t, v |-> <<>>]
StrTok(s) == [t |-> "str", v |-> s]

RECURSIVE json_items(_)
json_items(list) ==
    IF list = <<>> THEN <<>>
    ELSE IF Len(list) = 1 THEN <<StrTok(list[1])>>
    ELSE <<StrTok(Head(list)), Tok(",")>> \o json_items(Tail(list))

\* json.dump(list_of_strings)
json_dump(list) == <<Tok("[")>> \o json_items(list) \o <<Tok("]")>>

RECURSIVE json_parse_items(_)
\* the tokens between the brackets: str ("," str)*
json_parse_items(toks) ==
    IF toks = <<>> THEN [ok |-> FALSE, value |-> <<>>]
    ELSE IF Head(toks).t # "str" THEN [ok |-> FALSE, value |-> <<>>]
    ELSE IF Len(toks) = 1 THEN [ok |-> TRUE, value |-> <<Head(toks).v>>]
    ELSE IF toks[2].t # "," THEN [ok |-> FALSE, value |-> <<>>]
    ELSE LET rest == json_parse_items(SubSeq(toks, 3, Len(toks)))
         IN  [ok |-> rest.ok,
              value |-> IF rest.ok THEN <<Head(toks).v>> \o rest.value ELSE <<>>]

\* json.load(f): ok = FALSE stands for json.JSONDecodeError
json_load(toks) ==
    IF Len(toks) < 2 \/ toks[1].t # "[" \/ toks[Len(toks)].t # "]"
    THEN [ok |-> FALSE, value |-> <<>>]
    ELSE IF Len(toks) = 2 THEN [ok |-> TRUE, value |-> <<>>]
    ELSE json_parse_items(SubSeq(toks, 2, Len(toks) - 1))

NoFile == [exists |-> FALSE, text |-> <<>>]

\* ------------------------------------------------------------------------
\* State
\* ------------------------------------------------------------------------
VARIABLES
    \* SitemapSpider
    requests,           \* requests scheduled and not yet answered
    collected_urls,     \* self.collected_urls
    classified,         \* URLs parse_sitemap took for product pages (history)
    collector,          \* [phase, reason]: running, or closed(reason)
    \* product_data/product_links.json
    links_file,
    \* the site as the browser session shows it: what the DOM may contain
    site,
    \* ProductSpider
    extractor,          \* "init", "crawling", "closed"
    pending,            \* SeleniumRequests yielded by start_requests, not yet fetched
    driver,             \* the URL the one browser session shows
    gen,                \* per URL: the position and locals of its parse generator
    emitted,            \* per URL: what parse yielded so far (history)
    last_run,           \* the last variant combination processed (history)
    handle_error_calls, \* number of handle_error invocations (history)
    crawler_stats,      \* spider.crawler.stats
    \* ProductScraperPipeline
    seen_skus,
    stats,
    feed,               \* items process_item returned: the exported feed
    summary             \* what close_spider logged

collector_vars == <<requests, collected_urls, classified, collector>>
spider_vars == <<extractor, pending, driver, gen, emitted, last_run,
                 handle_error_calls, crawler_stats>>
pipeline_vars == <<seen_skus, stats, feed, summary>>
vars == <<collector_vars, links_file, site, spider_vars, pipeline_vars>>

\* ------------------------------------------------------------------------
\* SitemapSpider: the URL Collector
\* ------------------------------------------------------------------------
SitemapIndex == <<"https://x", "/", "v">>

\* child sitemaps the index may list
SitemapURLs == {<<"https://x", "/", "1">>, <<"https://x", "/", "2">>}

\* page URLs a child sitemap may list
SitemapPageURLs ==
    { <<"https://x", "/", "a", "-", "p", "-", "1">>,
      <<"https://x", "/", "b", "-", "p", "-", "2">>,
      <<"https://x", "/", "b">>,
      <<"https://x", "/", "a", "-", "p">> }

\* href attributes the variant links of a product page may carry
HrefPool ==
    { <<"/", "v", "-", "p", "-", "1">>,
      <<"b">>,
      <<>>,
      <<"https://y", "/", "a">>,
      <<"https://x", "/", "a", "-", "p", "-", "1">> }

Request(u, cb) == [url |-> u, callback |-> cb]

\* the heuristic of parse_sitemap
IsProductURL(u) == Contains(u, <<"-", "p", "-">>)

\* parse: every child sitemap of the index is requested
SitemapSpider_parse(req) ==
    /\ collector.phase = "running"
    /\ req \in requests
    /\ req.callback = "parse"
    /\ \E sitemap_urls \in SeqsUpTo(SitemapURLs, MaxLocs) :
         requests' = (requests \ {req}) \cup
                     {Request(u, "parse_sitemap") : u \in Range(sitemap_urls)}
    /\ UNCHANGED <<collected_urls, classified, collector, links_file, site,
                   spider_vars, pipeline_vars>>

\* parse_sitemap: every page URL containing "-p-" is requested
SitemapSpider_parse_sitemap(req) ==
    /\ collector.phase = "running"
    /\ req \in requests
    /\ req.callback = "parse_sitemap"
    /\ \E page_urls \in SeqsUpTo(SitemapPageURLs, MaxLocs) :
         LET products == {u \in Range(page_urls) : IsProductURL(u)}
         IN  /\ requests' = (requests \ {req}) \cup
                     {Request(u, "parse_url_based_variants") : u \in products}
             /\ classified' = classified \cup products
    /\ UNCHANGED <<collected_urls, collector, links_file, site,
                   spider_vars, pipeline_vars>>

\* a variant of variant_urls that adds the href attributes as they are
variant_urls_unjoined(response_url, hrefs, lookup_raises) ==
    IF lookup_raises THEN <<response_url>> ELSE <<response_url>> \o hrefs

\* the list parse_url_based_variants builds: the base URL, then the variant
\* links resolved against it; a lookup that raises leaves the base URL only
variant_urls(response_url, hrefs, lookup_raises) ==
    IF lookup_raises THEN <<response_url>>
    ELSE <<response_url>> \o [i \in 1..Len(hrefs) |-> urljoin(response_url, hrefs[i])]

\* parse_url_based_variants: the callback of a fetched product page
SitemapSpider_parse_url_based_variants(req) ==
    /\ collector.phase = "running"
    /\ req \in requests
    /\ req.callback = "parse_url_based_variants"
    /\ \E hrefs \in SeqsUpTo(HrefPool, MaxHrefs), lookup_raises \in BOOLEAN :
         collected_urls' = collected_urls \cup
                           Range(variant_urls(req.url, hrefs, lookup_raises))
    /\ requests' = requests \ {req}
    /\ UNCHANGED <<classified, collector, links_file, site,
                   spider_vars, pipeline_vars>>

\* a request that ends in a network error (after the retries) or an HTTP
\* error: the spider's requests carry no errback, so no callback runs
SitemapSpider_fetch_failed(req) ==
    /\ collector.phase = "running"
    /\ req \in requests
    /\ requests' = requests \ {req}
    /\ UNCHANGED <<collected_urls, classified, collector, links_file, site,
                   spider_vars, pipeline_vars>>

\* the text closed() writes
links_json(urls) == json_dump(sorted(urls))

\* closed(reason): "finished" when nothing is left to fetch, any other
\* reason (shutdown, cancelled) at any time
SitemapSpider_closed(reason) ==
    /\ collector.phase = "running"
    /\ reason = "finished" => requests = {}
    /\ links_file' = [exists |-> TRUE, text |-> links_json(collected_urls)]
    /\ collector' = [phase |-> "closed", reason |-> reason]
    /\ UNCHANGED <<requests, collected_urls, classified, site,
                   spider_vars, pipeline_vars>>

\* ------------------------------------------------------------------------
\* ProductItem and ProductLoader
\* ------------------------------------------------------------------------
\* the fields of ProductItem the model carries; productID, price and
\* description go the way of sku (Identity), image the way of name (strip)
Fields == {"name", "url", "sku", "main_category", "sub_categories", "variant_name"}

\* fields whose input processor is MapCompose(str.strip)
StripFields == {"name", "url", "main_category", "sub_categories", "variant_name"}

\* ProductLoader(item=ProductItem()): no value collected yet
NewLoader == [f \in Fields |-> <<>>]

\* arg_to_iter of a scalar: None gives no value
arg_to_iter(v) == IF v = None THEN <<>> ELSE <<v>>

\* <field>_in: MapCompose(str.strip) or Identity()
input_processor(f, values) ==
    IF f \in StripFields
    THEN [i \in 1..Len(values) |-> strip(values[i])]
    ELSE values

\* loader.add_value(field, values)
add_value(loader, f, values) ==
    LET processed == input_processor(f, values)
    IN  IF processed = <<>> THEN loader
        ELSE [loader EXCEPT ![f] = @ \o processed]

RECURSIVE TakeFirst(_)
\* default_output_processor: the first value that is neither None nor ''
TakeFirst(values) ==
    IF values = <<>> THEN None
    ELSE IF Head(values) # None /\ Head(values) # <<>> THEN Head(values)
    ELSE TakeFirst(Tail(values))

\* loader.load_item(): a field whose output is None stays unset (None here)
load_item(loader) == [f \in Fields |-> TakeFirst(loader[f])]

\* item.get(field)
item_get(item, f) == item[f]

\* ------------------------------------------------------------------------
\* ProductSpider.parse_product_data
\* ------------------------------------------------------------------------
\* `if b.get("name")`
Truthy(v) == v # None /\ v # <<>>

\* the breadcrumb block of parse_product_data, for a decoded trail (the
\* names of itemListElement, None where an entry has no name)
add_breadcrumbs(loader, trail) ==
    IF Len(trail) >= 3
    THEN LET sub_cats == SelectSeq(SubSeq(trail, 3, Len(trail) - 1), Truthy)
         IN  add_value(add_value(loader, "main_category", arg_to_iter(trail[2])),
                       "sub_categories", sub_cats)
    ELSE IF Len(trail) = 2
    THEN add_value(loader, "main_category", arg_to_iter(trail[2]))
    ELSE loader

\* the structured-data block, for a decoded document
add_structured_data(loader, data) ==
    add_value(add_value(add_value(loader,
        "name", arg_to_iter(data.name)),
        "url", arg_to_iter(data.url)),
        "sku", arg_to_iter(data.sku))

\* parse_product_data(driver) on a page whose two scripts are sd and bc.
\* kind: "timeout" (WebDriverWait expires: TimeoutException, which neither
\* except clause names), "empty" (innerHTML is empty), "malformed"
\* (json.JSONDecodeError, caught), "doc" (a decoded document).
parse_product_data(sd, bc) ==
    LET with_sd == IF sd.kind = "doc" THEN add_structured_data(NewLoader, sd.data)
                   ELSE NewLoader
        with_bc == IF bc.kind = "doc" THEN add_breadcrumbs(with_sd, bc.trail)
                   ELSE with_sd
        raised == sd.kind = "timeout" \/ bc.kind = "timeout"
    IN  [raised |-> raised,
         item |-> IF raised THEN load_item(NewLoader) ELSE load_item(with_bc)]

\* ------------------------------------------------------------------------
\* ProductSpider.parse_product_variants: the pure parts
\* ------------------------------------------------------------------------
\* a character of [\w\s]
IsWordOrSpace(c) == c \in {"a", "b", "c", " "}

RECURSIVE findall_names(_, _)
\* re.findall('([\w\s]+):', text): every maximal run of word or space
\* characters that a colon follows; run is the run read so far
findall_names(text, run) ==
    IF text = <<>> THEN <<>>
    ELSE IF IsWordOrSpace(Head(text)) THEN findall_names(Tail(text), run \o <<Head(text)>>)
    ELSE IF Head(text) = ":" /\ run # <<>> THEN <<run>> \o findall_names(Tail(text), <<>>)
    ELSE findall_names(Tail(text), <<>>)

RECURSIVE join(_, _)
\* sep.join(parts)
join(sep, parts) ==
    IF parts = <<>> THEN <<>>
    ELSE IF Len(parts) = 1 THEN parts[1]
    ELSE Head(parts) \o sep \o join(sep, Tail(parts))

\* ' '.join(re.findall(...)) on the caption of a feature group
feature_name(caption) == join(<<" ">>, findall_names(caption, <<>>))

RECURSIVE product_from_one(_)
\* a variant of product whose index ranges start at 1 instead of 0
product_from_one(num_variants) ==
    IF num_variants = <<>> THEN << <<>> >>
    ELSE LET rest == product_from_one(Tail(num_variants))
             block(i) == [j \in 1..Len(rest) |-> <<i>> \o rest[j]]
         IN  Concat([i \in 1..(Head(num_variants) - 1) |-> block(i + 1)])

RECURSIVE product(_)
\* list(product(*[np.arange(k) for k in num_variants])), indices from 1
product(num_variants) ==
    IF num_variants = <<>> THEN << <<>> >>
    ELSE LET rest == product(Tail(num_variants))
             block(i) == [j \in 1..Len(rest) |-> <<i>> \o rest[j]]
         IN  Concat([i \in 1..Head(num_variants) |-> block(i)])

\* f"{variant_names[i]}: {chosen_feature_info}"
variant_part(name, label) == name \o <<":", " ">> \o label

\* " | ".join(variant_parts) for one combination
variant_name_of(features, combination) ==
    join(<<" ", "|", " ">>,
         [i \in 1..Len(combination) |->
             variant_part(features[i].name, features[i].labels[combination[i]])])

\* the item of one combination: the fields of the re-extracted item, then
\* variant_name, through a fresh ProductLoader
variant_item(item, variant_name) ==
    LET copy(loader, f) == add_value(loader, f, arg_to_iter(item[f]))
        copied == copy(copy(copy(copy(copy(copy(NewLoader,
                    "name"), "url"), "sku"), "main_category"),
                    "sub_categories"), "variant_name")
    IN  load_item(add_value(copied, "variant_name", <<variant_name>>))

\* the steps the loop body of parse_product_variants takes for one
\* combination, in the order of the code, up to the step that raises.
\* fail_at = i > 0: the click on the i-th option raises.
combination_steps(combination, fail_at, extraction_raised) ==
    LET n == Len(combination)
        upto == IF fail_at > 0 THEN fail_at - 1 ELSE n
        clicks == Concat([i \in 1..upto |->
                     <<[op |-> "click", i |-> i], [op |-> "read", i |-> i]>>])
    IN  IF fail_at > 0 THEN clicks \o <<[op |-> "click", i |-> fail_at]>>
        ELSE IF extraction_raised THEN clicks \o <<[op |-> "extract", i |-> 0]>>
        ELSE clicks \o <<[op |-> "extract", i |-> 0], [op |-> "sleep", i |-> 0],
                         [op |-> "yield", i |-> 0]>>

\* one pass of the loop body: [raised, item, steps]
run_combination(features, combination, fail_at, sd, bc) ==
    LET extraction == parse_product_data(sd, bc)
        raised == fail_at > 0 \/ extraction.raised
    IN  [raised |-> raised,
         steps |-> combination_steps(combination, fail_at, extraction.raised),
         item |-> IF raised THEN load_item(NewLoader)
                  ELSE variant_item(extraction.item,
                                    variant_name_of(features, combination))]

\* ------------------------------------------------------------------------
\* ProductScraperPipeline: the Dedup/Reporting stage
\* ------------------------------------------------------------------------
\* ProductScraperPipeline.__init__
NewPipeline ==
    [seen_skus |-> {},
     stats |-> [processed |-> 0, dropped |-> 0, errors |-> 0],
     feed |-> <<>>]

\* a variant of process_item that never records the sku it accepts
process_item_unrecorded(p, item) ==
    LET sku == item_get(item, "sku")
    IN  IF sku \in p.seen_skus
        THEN [p EXCEPT !.stats.dropped = @ + 1]
        ELSE [seen_skus |-> p.seen_skus,
              stats |-> [p.stats EXCEPT !.processed = @ + 1],
              feed |-> Append(p.feed, item)]

\* process_item(item, spider) on the pipeline p; a DropItem leaves the feed
\* as it is
process_item(p, item) ==
    LET sku == item_get(item, "sku")
    IN  IF sku \in p.seen_skus
        THEN [p EXCEPT !.stats.dropped = @ + 1]
        ELSE [seen_skus |-> p.seen_skus \cup {sku},
              stats |-> [p.stats EXCEPT !.processed = @ + 1],
              feed |-> Append(p.feed, item)]

\* what becomes of an object a callback yields: an item goes through
\* process_item; the generator object parse yields for the base record is
\* no item (it has no .get), and nothing of it reaches the pipeline's state
scrape(p, obj) ==
    IF obj.kind = "item" THEN process_item(p, obj.item) ELSE p

\* close_spider: the summary logged, and the stats set on the crawler
close_summary(st) ==
    [logged |-> TRUE, processed |-> st.processed, dropped |-> st.dropped,
     errors |-> st.errors]

close_stats(st) ==
    [products_processed |-> st.processed,
     products_dropped_duplicates |-> st.dropped,
     product_page_errors |-> st.errors]

\* ------------------------------------------------------------------------
\* ProductSpider: the Product Extractor
\* ------------------------------------------------------------------------
\* the i-th product page of the site
PageUrl(i) == <<"https://x", "/", "a", "-", "p", "-">> \o [j \in 1..i |-> "1"]

ExtractorURLs == {PageUrl(i) : i \in 1..MaxPages}

\* the locals of a parse generator that has not started
IdleGen ==
    [pc |-> "idle", page |-> <<>>, located |-> FALSE, features |-> <<>>,
     category_index |-> <<>>, next |-> 1, failed |-> FALSE]

NoRun ==
    [ran |-> FALSE, url |-> <<>>, page |-> <<>>, combination |-> <<>>,
     steps |-> <<>>, raised |-> FALSE, clicks_ok |-> TRUE,
     sd |-> "none", bc |-> "none", trail |-> <<>>, item |-> load_item(NewLoader)]

Pipeline == [seen_skus |-> seen_skus, stats |-> stats, feed |-> feed]

\* the structured-data script of the page the session shows
ScriptOf(page, s) ==
    [kind |-> s.kind, data |-> [name |-> s.name, url |-> page, sku |-> s.sku]]

\* start_requests: one SeleniumRequest per URL of product_links.json; a
\* missing or undecodable file is logged and yields nothing
ProductSpider_start_requests ==
    /\ extractor = "init"
    /\ LET loaded == IF links_file.exists THEN json_load(links_file.text)
                     ELSE [ok |-> FALSE, value |-> <<>>]
       IN  pending' = IF loaded.ok THEN Range(loaded.value) ELSE {}
    /\ extractor' = "crawling"
    /\ UNCHANGED <<collector_vars, links_file, site, driver, gen, emitted,
                   last_run, handle_error_calls, crawler_stats, pipeline_vars>>

\* a SeleniumRequest is served: the session navigates to its URL and the
\* response waits for its callback.  Up to CONCURRENT_REQUESTS requests are
\* handed to the downloader before a callback runs.
ProductSpider_fetch(u) ==
    /\ extractor = "crawling"
    /\ u \in pending
    /\ Cardinality({v \in ExtractorURLs : gen[v].pc = "fetched"}) < CONCURRENT_REQUESTS
    /\ driver' = u
    /\ pending' = pending \ {u}
    /\ gen' = [gen EXCEPT ![u].pc = "fetched"]
    /\ UNCHANGED <<collector_vars, links_file, site, extractor, emitted,
                   last_run, handle_error_calls, crawler_stats, pipeline_vars>>

\* handle_error: the errback of a request that failed for good; the failed
\* navigation may or may not have left the page the session showed
ProductSpider_handle_error(u) ==
    /\ extractor = "crawling"
    /\ u \in pending
    /\ pending' = pending \ {u}
    /\ \E d \in {driver, u} : driver' = d
    /\ crawler_stats' = [crawler_stats EXCEPT !.product_page_errors = @ + 1]
    /\ handle_error_calls' = handle_error_calls + 1
    /\ UNCHANGED <<collector_vars, links_file, site, extractor, gen, emitted,
                   last_run, pipeline_vars>>

\* the object `yield self.parse_product_data(driver)` hands over:
\* parse_product_data is a generator function, so the call runs none of its
\* body and yields a generator object
base_object(page) ==
    [kind |-> "generator", origin |-> "base", page |-> page,
     variant_name |-> None, item |-> load_item(NewLoader)]

variant_object(page, item) ==
    [kind |-> "item", origin |-> "variant", page |-> page,
     variant_name |-> item["variant_name"], item |-> item]

\* what parse(u) yielded, without the item bodies
Brief(obj) ==
    [kind |-> obj.kind, origin |-> obj.origin, page |-> obj.page,
     variant_name |-> obj.variant_name]

\* parse, up to its first yield
ProductSpider_parse(u) ==
    /\ extractor = "crawling"
    /\ gen[u].pc = "fetched"
    /\ LET obj == base_object(driver)
           p == scrape(Pipeline, obj)
       IN  /\ emitted' = [emitted EXCEPT ![u] = Append(@, Brief(obj))]
           /\ seen_skus' = p.seen_skus
           /\ stats' = p.stats
           /\ feed' = p.feed
    /\ gen' = [gen EXCEPT ![u].pc = "base"]
    /\ UNCHANGED <<collector_vars, links_file, site, extractor, pending, driver,
                   last_run, handle_error_calls, crawler_stats, summary>>

\* the lists the first loop of parse_product_variants builds from the
\* feature groups of the variant block
located_features(region) ==
    [i \in 1..Len(region.features) |->
        [name |-> feature_name(region.features[i].caption),
         labels |-> region.features[i].labels]]

num_variants(features) == [i \in 1..Len(features) |-> Len(features[i].labels)]

\* one pass of the loop of parse_product_variants in the generator of u,
\* whose locals are g: the combination g.next is clicked, read and extracted
\* on the page the session shows; a raise ends the generator, a yield
\* suspends it
LoopPass(u, g, fail_at, s, b) ==
    LET combination == g.category_index[g.next]
        run == run_combination(g.features, combination, fail_at,
                               ScriptOf(driver, s), b)
        obj == variant_object(driver, run.item)
        p == IF run.raised THEN Pipeline ELSE scrape(Pipeline, obj)
    IN  /\ last_run' = [ran |-> TRUE, url |-> u, page |-> driver,
                        combination |-> combination, steps |-> run.steps,
                        raised |-> run.raised, clicks_ok |-> fail_at = 0,
                        sd |-> s.kind, bc |-> b.kind, trail |-> b.trail,
                        item |-> run.item]
        /\ gen' = [gen EXCEPT ![u] =
                     IF run.raised
                     THEN [g EXCEPT !.pc = "done", !.failed = TRUE]
                     ELSE [g EXCEPT !.pc = "variant", !.next = @ + 1]]
        /\ emitted' = [emitted EXCEPT ![u] =
                     IF run.raised THEN @ ELSE Append(@, Brief(obj))]
        /\ seen_skus' = p.seen_skus
        /\ stats' = p.stats
        /\ feed' = p.feed

\* parse resumed after the base yield: parse_product_variants waits for the
\* variant block, builds its lists and runs the first combination.  A block
\* that does not appear, or a group without caption, raises into the
\* except clause, which ends the enumeration.
ProductSpider_parse_product_variants(u) ==
    /\ extractor = "crawling"
    /\ gen[u].pc = "base"
    /\ \E region \in site.vr :
         IF region.kind # "found"
         THEN /\ gen' = [gen EXCEPT ![u].pc = "done", ![u].failed = TRUE,
                                    ![u].page = driver]
              /\ UNCHANGED <<emitted, last_run, seen_skus, stats, feed>>
         ELSE LET features == located_features(region)
                  g == [gen[u] EXCEPT !.page = driver, !.located = TRUE,
                                      !.features = features,
                                      !.category_index = product(num_variants(features))]
              IN  IF g.category_index = <<>>
                  THEN /\ gen' = [gen EXCEPT ![u] = [g EXCEPT !.pc = "done"]]
                       /\ UNCHANGED <<emitted, last_run, seen_skus, stats, feed>>
                  ELSE \E fail_at \in 0..Len(g.features), s \in site.sd, b \in site.bc :
                          LoopPass(u, g, fail_at, s, b)
    /\ UNCHANGED <<collector_vars, links_file, site, extractor, pending, driver,
                   handle_error_calls, crawler_stats, summary>>

\* parse resumed after the yield of a variant record: the next combination,
\* or the end of the loop.  The option elements were found on g.page: when
\* the session has left that page since, the click raises.
ProductSpider_next_combination(u) ==
    /\ extractor = "crawling"
    /\ gen[u].pc = "variant"
    /\ LET g == gen[u]
       IN  IF g.next > Len(g.category_index)
           THEN /\ gen' = [gen EXCEPT ![u].pc = "done"]
                /\ UNCHANGED <<emitted, last_run, seen_skus, stats, feed>>
           ELSE \E fail_at \in 0..Len(g.features), s \in site.sd, b \in site.bc :
                   /\ driver # g.page => fail_at = 1
                   /\ LoopPass(u, g, fail_at, s, b)
    /\ UNCHANGED <<collector_vars, links_file, site, extractor, pending, driver,
                   handle_error_calls, crawler_stats, summary>>

\* the spider closes when no request and no callback is left:
\* ProductScraperPipeline.close_spider logs the summary and sets the
\* crawler's stats from the pipeline's own counters
ProductScraperPipeline_close_spider ==
    /\ extractor = "crawling"
    /\ pending = {}
    /\ \A u \in ExtractorURLs : gen[u].pc \in {"idle", "done"}
    /\ summary' = close_summary(stats)
    /\ crawler_stats' = close_stats(stats)
    /\ extractor' = "closed"
    /\ UNCHANGED <<collector_vars, links_file, site, pending, driver, gen,
                   emitted, last_run, handle_error_calls, seen_skus, stats, feed>>

\* ------------------------------------------------------------------------
\* The pages of the site: what the two scripts and the variant block of a
\* product page may hold when the session reads them
\* ------------------------------------------------------------------------
Doc(name, sku) == [kind |-> "doc", name |-> name, sku |-> sku]
Script(kind) == [kind |-> kind, name |-> None, sku |-> None]

PlainScript == Doc(<<"a">>, <<"1">>)

\* documents that differ in their sku: missing, empty, two values
SkuScripts == {Doc(<<"a">>, k) : k \in {None, <<>>, <<"1">>, <<"2">>}}

\* a script that never appears, is empty, is no JSON, or is a document
MarkerScripts ==
    {Script(k) : k \in {"timeout", "empty", "malformed"}}
        \cup {Doc(<<" ", "a">>, <<"1">>)}

Crumbs(kind, trail) == [kind |-> kind, trail |-> trail]

PlainCrumbs == Crumbs("doc", << <<"a">>, <<"b">> >>)

\* the name of the i-th trail entry: "a", "aa", ...; padded with blanks;
\* or missing at the third entry
TrailName(fam, i) ==
    LET plain == [k \in 1..i |-> "a"]
    IN  IF fam = "padded" THEN <<" ">> \o plain \o <<" ">>
        ELSE IF fam = "gap" /\ i = 3 THEN None
        ELSE plain

Trail(fam, n) == [i \in 1..n |-> TrailName(fam, i)]

TrailPool == {Trail(fam, n) : fam \in {"plain", "padded", "gap"}, n \in 0..MaxTrail}

CrumbPool ==
    {Crumbs(k, <<>>) : k \in {"timeout", "empty", "malformed"}}
        \cup {Crumbs("doc", t) : t \in TrailPool}

\* the displayed label of the j-th option of a feature group
Label(fam, j) ==
    IF fam = "distinct" THEN [k \in 1..j |-> "a"]
    ELSE IF fam = "duplicate" THEN <<"a">>
    ELSE IF fam = "padded" THEN <<"a">> \o [k \in 1..(j - 1) |-> " "]
    ELSE Concat([k \in 1..(j - 1) |-> <<" ", "|", " ", ":", " ">>])

FeatureKinds ==
    { [caption |-> <<"c", ":">>, fam |-> "distinct"],
      [caption |-> <<"c", ":">>, fam |-> "duplicate"],
      [caption |-> <<"c", ":", "b", ":">>, fam |-> "padded"],
      [caption |-> <<":">>, fam |-> "bar"] }

Feature(kind, k) ==
    [caption |-> kind.caption, labels |-> [j \in 1..k |-> Label(kind.fam, j)]]

Region(kind, features) == [kind |-> kind, features |-> features]

\* a variant block whose groups are of one kind and have the given sizes
Block(kind, sizes) ==
    Region("found", [i \in 1..Len(sizes) |-> Feature(kind, sizes[i])])

DistinctKind == [caption |-> <<"c", ":">>, fam |-> "distinct"]

\* no variant block, a feature group without caption, or a block of groups
AllRegions ==
    {Region("absent", <<>>), Region("broken", <<>>)}
        \cup {Block(kind, sizes) : kind \in FeatureKinds,
                                   sizes \in SeqsUpTo(0..MaxOptions, MaxFeatures)}

\* no variant block, or one group of two options
SimpleRegions == {Region("absent", <<>>), Block(DistinctKind, <<2>>)}

\* no variant block, or two groups of the most options
GridRegions ==
    {Region("absent", <<>>), Block(DistinctKind, <<MaxOptions, MaxOptions>>)}

\* ------------------------------------------------------------------------
\* Specifications
\* ------------------------------------------------------------------------
InitPipeline ==
    /\ seen_skus = NewPipeline.seen_skus
    /\ stats = NewPipeline.stats
    /\ feed = NewPipeline.feed
    /\ summary = [logged |-> FALSE, processed |-> 0, dropped |-> 0, errors |-> 0]

InitSpider ==
    /\ extractor = "init"
    /\ pending = {}
    /\ driver = <<>>
    /\ gen = [u \in ExtractorURLs |-> IdleGen]
    /\ emitted = [u \in ExtractorURLs |-> <<>>]
    /\ last_run = NoRun
    /\ handle_error_calls = 0
    /\ crawler_stats = [products_processed |-> 0,
                        products_dropped_duplicates |-> 0,
                        product_page_errors |-> 0]

\* the collector starts with the request for the sitemap index
InitCollector ==
    /\ requests = {Request(SitemapIndex, "parse")}
    /\ collected_urls = {}
    /\ classified = {}
    /\ collector = [phase |-> "running", reason |-> "none"]
    /\ links_file = NoFile
    /\ site = [sd |-> {PlainScript}, bc |-> {PlainCrumbs}, vr |-> SimpleRegions]
    /\ InitSpider
    /\ InitPipeline

\* the file the extractor finds: the one a collector run wrote for up to n
\* URLs, none, or one cut short
LinkFiles(n) ==
    {[exists |-> TRUE, text |-> links_json(S)] :
        S \in {T \in SUBSET ExtractorURLs : Cardinality(T) <= n}}
      \cup {NoFile, [exists |-> TRUE, text |-> <<Tok("[")>>]}

\* the extractor starts after a collector run
InitExtractor(pages, n) ==
    /\ links_file \in LinkFiles(n)
    /\ requests = {}
    /\ collected_urls = IF links_file.exists /\ json_load(links_file.text).ok
                        THEN Range(json_load(links_file.text).value) ELSE {}
    /\ classified = collected_urls
    /\ collector = [phase |-> IF links_file.exists THEN "closed" ELSE "running",
                    reason |-> IF links_file.exists THEN "finished" ELSE "none"]
    /\ site = pages
    /\ InitSpider
    /\ InitPipeline

NextCollector ==
    \/ \E req \in requests : SitemapSpider_parse(req)
    \/ \E req \in requests : SitemapSpider_parse_sitemap(req)
    \/ \E req \in requests : SitemapSpider_parse_url_based_variants(req)
    \/ \E req \in requests : SitemapSpider_fetch_failed(req)
    \/ \E reason \in {"finished", "shutdown"} : SitemapSpider_closed(reason)

NextExtractor ==
    \/ ProductSpider_start_requests
    \/ \E u \in ExtractorURLs : ProductSpider_fetch(u)
    \/ \E u \in ExtractorURLs : ProductSpider_handle_error(u)
    \/ \E u \in ExtractorURLs : ProductSpider_parse(u)
    \/ \E u \in ExtractorURLs : ProductSpider_parse_product_variants(u)
    \/ \E u \in ExtractorURLs : ProductSpider_next_combination(u)
    \/ ProductScraperPipeline_close_spider

\* the URL Collector alone
SpecCollector == InitCollector /\ [][NextCollector]_vars

\* the extractor and the pipeline on one page whose sku changes with the
\* options selected
SpecDedup ==
    InitExtractor([sd |-> SkuScripts, bc |-> {PlainCrumbs}, vr |-> GridRegions], 1)
        /\ [][NextExtractor]_vars

\* the extractor and the pipeline on several pages sharing the session
SpecSession ==
    InitExtractor([sd |-> {PlainScript}, bc |-> {PlainCrumbs}, vr |-> SimpleRegions],
                  MaxPages)
        /\ [][NextExtractor]_vars

\* the extractor on one page, over the variant blocks
SpecVariants ==
    InitExtractor([sd |-> {PlainScript}, bc |-> {PlainCrumbs}, vr |-> AllRegions], 1)
        /\ [][NextExtractor]_vars

\* the extractor on one page, over the states of its two scripts
SpecMarkers ==
    InitExtractor([sd |-> MarkerScripts, bc |-> CrumbPool, vr |-> SimpleRegions], 1)
        /\ [][NextExtractor]_vars

Spec == SpecDedup

\* ------------------------------------------------------------------------
\* Properties
\* ------------------------------------------------------------------------
Written == json_load(links_file.text).value

\* C1: the records the Dedup stage accepted (the feed) have pairwise
\* distinct sku values: process_item accepts a record only if no record
\* accepted before it had the same sku.
C1_AcceptedSkusDistinct ==
    \A i, j \in 1..Len(feed) :
        i # j => item_get(feed[i], "sku") # item_get(feed[j], "sku")

\* a duplicate was dropped after two records with different skus were accepted
C1_Witness ==
    /\ Len(feed) >= 2
    /\ stats.dropped >= 1

\* C2: for every URL handed to parse, the first thing parse emits is the
\* base ProductRecord, an item, and it is the only base record of the page.
C2_OneBaseRecord ==
    \A u \in ExtractorURLs :
        gen[u].pc \in {"base", "variant", "done"} =>
            /\ Len(emitted[u]) >= 1
            /\ emitted[u][1].origin = "base"
            /\ emitted[u][1].kind = "item"
            /\ \A i \in 2..Len(emitted[u]) : emitted[u][i].origin = "variant"

RECURSIVE Prod(_)
\* k1 * k2 * ... * kN
Prod(sizes) == IF sizes = <<>> THEN 1 ELSE Head(sizes) * Prod(Tail(sizes))

\* the variant records parse(u) emitted
VariantRecords(u) == SelectSeq(emitted[u], LAMBDA o : o.origin = "variant")

\* the enumeration of u ran to its end and no step of it raised
Enumerated(u) == gen[u].pc = "done" /\ gen[u].located /\ ~gen[u].failed

NamesDistinct(records) ==
    \A i, j \in 1..Len(records) :
        i # j => records[i].variant_name # records[j].variant_name

\* within every feature group the labels differ after stripping and hold no "|"
LabelsSeparable(features) ==
    \A f \in 1..Len(features) :
        LET labels == features[f].labels
        IN  /\ \A j, k \in 1..Len(labels) :
                  j # k => strip(labels[j]) # strip(labels[k])
            /\ \A j \in 1..Len(labels) : ~Contains(labels[j], <<"|">>)

\* C3 (as stated): an enumeration no step of which fails emits
\* k1*...*kN variant records, each with a distinct variant_name.
C3_CountAndDistinctNames ==
    \A u \in ExtractorURLs :
        Enumerated(u) =>
            /\ Len(VariantRecords(u)) = Prod(num_variants(gen[u].features))
            /\ NamesDistinct(VariantRecords(u))

\* C3 (amended): an enumeration no step of which fails emits k1*...*kN
\* variant records; their variant_names are pairwise distinct when, within
\* every feature group, the displayed labels differ after stripping and
\* hold no "|".
C3_CountAndNamesOfSeparableLabels ==
    \A u \in ExtractorURLs :
        Enumerated(u) =>
            /\ Len(VariantRecords(u)) = Prod(num_variants(gen[u].features))
            /\ LabelsSeparable(gen[u].features) => NamesDistinct(VariantRecords(u))

\* a 2 x 2 block of separable labels was enumerated to its end
C3_Witness ==
    \E u \in ExtractorURLs :
        /\ Enumerated(u)
        /\ num_variants(gen[u].features) = <<2, 2>>
        /\ LabelsSeparable(gen[u].features)
        /\ Len(VariantRecords(u)) = 4

\* C4: for a breadcrumb trail of length >= 3 (all of its entries named),
\* the record's main_category is entry[1] and its sub_categories is the
\* list of the names of the entries [2 .. len-1), names compared stripped
\* and a lone value read as a list of one.
C4_SubCategoriesAreTheMiddleEntries ==
    LET trail == last_run.trail
        listed(v) == IF v = None THEN <<>> ELSE <<v>>
    IN  ( /\ last_run.ran
          /\ ~last_run.raised
          /\ last_run.bc = "doc"
          /\ Len(trail) >= 3
          /\ \A i \in 1..Len(trail) : trail[i] # None /\ strip(trail[i]) # <<>> )
        => /\ last_run.item["main_category"] = strip(trail[2])
           /\ listed(last_run.item["sub_categories"])
                = [i \in 1..(Len(trail) - 3) |-> strip(trail[i + 2])]

\* C5: the file closed() writes is a JSON array of absolute URLs, strictly
\* ascending (sorted, no URL twice), holding what was collected, whatever
\* was handled before and for whatever reason the spider closes.
C5_LinksFileSortedUniqueAbsolute ==
    collector.phase = "closed" =>
        /\ links_file.exists
        /\ json_load(links_file.text).ok
        /\ \A i \in 1..Len(Written) : IsAbsolute(Written[i])
        /\ \A i \in 1..(Len(Written) - 1) : StrLess(Written[i], Written[i + 1])
        /\ Range(Written) = collected_urls

\* a file of three or more URLs, one of them resolved from the relative
\* href "b" of a product page
C5_Witness ==
    /\ collector.phase = "closed"
    /\ Len(Written) >= 3
    /\ <<"https://x", "/", "b">> \in Range(Written)

\* C6: the error count of the summary (the "Failed URLs" line and the
\* product_page_errors stat after close_spider) is the number of
\* handle_error invocations of the run.
C6_SummaryCountsPageErrors ==
    extractor = "closed" =>
        /\ summary.errors = handle_error_calls
        /\ crawler_stats.product_page_errors = handle_error_calls

\* C7: when the wait for the structured-data script or the breadcrumb
\* script expires during an extraction (no click having failed), the
\* extraction still produces its record.
C7_TimeoutStillYieldsRecord ==
    ( /\ last_run.ran
      /\ last_run.clicks_ok
      /\ (last_run.sd = "timeout" \/ last_run.bc = "timeout") )
    => /\ ~last_run.raised
       /\ last_run.steps[Len(last_run.steps)].op = "yield"

\* C8: when the collector has finished, every URL parse_sitemap took for a
\* product URL is in the file, whatever became of the fetch of its page.
C8_ProductURLsAreWritten ==
    (collector.phase = "closed" /\ collector.reason = "finished") =>
        classified \subseteq Range(Written)

\* the steps C9 gives for a combination of n features
ClaimedSteps(n) ==
    Concat([i \in 1..n |-> <<[op |-> "click", i |-> i], [op |-> "read", i |-> i]>>])
        \o <<[op |-> "sleep", i |-> 0], [op |-> "extract", i |-> 0],
             [op |-> "yield", i |-> 0]>>

\* C9: for every combination the steps are: per feature, in feature order,
\* the click and then the read of the label; then the settle pause; then
\* the re-extraction; then the emission of the record.
C9_PauseBeforeExtraction ==
    (last_run.ran /\ ~last_run.raised) =>
        last_run.steps = ClaimedSteps(Len(last_run.combination))

\* C10: every record parse(u) emits is read from page u: the session is
\* not navigated elsewhere while u is being processed.
C10_RecordsReadFromOwnPage ==
    \A u \in ExtractorURLs :
        \A i \in 1..Len(emitted[u]) :
            emitted[u][i].kind = "item" => emitted[u][i].page = u

====
